---- MODULE Spec2Model ----
(***************************************************************************)
(* Shopping List App (src/app.py): the catalog store -> category -> items, *)
(* the store visit order, the session's selection, and the two persisted   *)
(* JSON documents, with the pure helpers (normalisation, sorting, legacy   *)
(* conversion, order parsing, WhatsApp formatting) computed as the code    *)
(* computes them.                                                          *)
(*                                                                         *)
(* A Python str is a sequence of Unicode code points.  A Python dict is a  *)
(* sequence of entries [k |-> key, v |-> value] with distinct keys, in     *)
(* insertion order.  A Python set has no order of its own: every place     *)
(* where the code iterates a set takes any enumeration of it.              *)
(***************************************************************************)
EXTENDS Integers, Sequences, FiniteSets, TLC

VARIABLES
  stores,       \* st.session_state.stores
  store_order,  \* st.session_state.store_order
  selected,     \* st.session_state.selected: store -> category -> set of items
  dataFile,     \* contents of DATA_FILE (shopping_data.json)
  metaFile,     \* contents of META_FILE (shopping_meta.json)
  last,         \* name of the handler that ran last
  probe         \* input and result of the pure function under test

vars == <<stores, store_order, selected, dataFile, metaFile, last, probe>>

-----------------------------------------------------------------------------
(* Bounds of the model *)

\* Add store is offered while the catalog holds fewer stores than this.
MaxStores == 5
\* Longest text typed into the "Products" box.
MaxTextLen == 4
\* Longest persisted visit order (and longest visit order handed to the
\* formatter).
MaxOrderLen == 3
\* Longest text typed into the "Store order" box.
MaxOrderTextLen == 5
\* Longest item list of a persisted catalog document.
MaxListLen == 3

-----------------------------------------------------------------------------
(* Strings *)

\* str.isspace(): the characters str.strip() and str.split() treat as blank.
IsSpace(c) == c \in {9, 10, 11, 12, 13, 28, 29, 30, 31, 32, 133, 160}

\* str.split() without arguments: the maximal runs of non-blank characters.
RECURSIVE SplitWs(_, _, _)
SplitWs(s, cur, acc) ==
  IF s = <<>> THEN (IF cur = <<>> THEN acc ELSE Append(acc, cur))
  ELSE IF IsSpace(Head(s))
       THEN SplitWs(Tail(s), <<>>, IF cur = <<>> THEN acc ELSE Append(acc, cur))
       ELSE SplitWs(Tail(s), Append(cur, Head(s)), acc)

\* sep.join(parts)
RECURSIVE Join(_, _)
Join(sep, parts) ==
  IF parts = <<>> THEN <<>>
  ELSE IF Len(parts) = 1 THEN parts[1]
  ELSE parts[1] \o sep \o Join(sep, Tail(parts))

\* " ".join(str(name).strip().split())
normalize_name(name) == Join(<<32>>, SplitWs(name, <<>>, <<>>))

\* str.split(sep) on a one-character separator: the pieces between the
\* separators, empty pieces kept.
RECURSIVE SplitOn(_, _)
SplitOn(s, sep) ==
  IF \A i \in 1..Len(s) : s[i] # sep THEN <<s>>
  ELSE LET at == CHOOSE i \in 1..Len(s) :
                   s[i] = sep /\ \A j \in 1..(i - 1) : s[j] # sep
       IN <<SubSeq(s, 1, at - 1)>> \o SplitOn(SubSeq(s, at + 1, Len(s)), sep)

\* str.replace(a, b) for single characters
Replace(s, a, b) == [i \in 1..Len(s) |-> IF s[i] = a THEN b ELSE s[i]]

\* The line boundaries str.splitlines() knows: \n \v \f \r FS GS RS NEL
\* (a \r\n pair counts once; LS and PS are outside the modelled alphabet).
IsLineBreak(c) == c \in {10, 11, 12, 13, 28, 29, 30, 133}

\* str.splitlines(): like a split on line boundaries, but a final line
\* boundary opens no empty last line, and the empty string has no line.
RECURSIVE SplitLines(_, _, _)
SplitLines(s, cur, acc) ==
  IF s = <<>> THEN (IF cur = <<>> THEN acc ELSE Append(acc, cur))
  ELSE IF Head(s) = 13 /\ Len(s) > 1 /\ s[2] = 10
       THEN SplitLines(Tail(Tail(s)), <<>>, Append(acc, cur))
  ELSE IF IsLineBreak(Head(s))
       THEN SplitLines(Tail(s), <<>>, Append(acc, cur))
  ELSE SplitLines(Tail(s), Append(cur, Head(s)), acc)

\* str.lower() on one character (ASCII and Latin-1 capitals).
LowerChar(c) ==
  IF c \in 65..90 \/ (c \in 192..222 /\ c # 215) THEN c + 32 ELSE c

\* s.lower(), the sort key of every sorted(..., key=lambda s: s.lower())
lower(s) == [i \in 1..Len(s) |-> LowerChar(s[i])]

\* Python's < on str: lexicographic by code point.
RECURSIVE StrLess(_, _)
StrLess(a, b) ==
  IF b = <<>> THEN FALSE
  ELSE IF a = <<>> THEN TRUE
  ELSE IF Head(a) < Head(b) THEN TRUE
  ELSE IF Head(a) > Head(b) THEN FALSE
  ELSE StrLess(Tail(a), Tail(b))

\* One step of a stable sort: x goes behind every element whose key is not
\* greater than its own.
RECURSIVE InsertByLower(_, _)
InsertByLower(acc, x) ==
  IF acc = <<>> THEN <<x>>
  ELSE IF StrLess(lower(x), lower(Head(acc))) THEN <<x>> \o acc
  ELSE <<Head(acc)>> \o InsertByLower(Tail(acc), x)

\* sorted(seq, key=lambda s: s.lower()): stable, equal keys keep their order.
RECURSIVE sorted_lower(_)
sorted_lower(seq) ==
  IF seq = <<>> THEN <<>>
  ELSE InsertByLower(sorted_lower(SubSeq(seq, 1, Len(seq) - 1)), seq[Len(seq)])

Range(seq) == {seq[i] : i \in 1..Len(seq)}

\* The elements of S whose sort key no other element's key is below.
LeastByLower(S) == {x \in S : \A y \in S : ~StrLess(lower(y), lower(x))}

\* sorted(a_set, key=lambda s: s.lower()): a Python set hands out its
\* elements in an order of its own and the sort is stable, so the result is
\* any enumeration of the set in non-decreasing key order (items with equal
\* keys come out in either order).
RECURSIVE sorted_set(_)
sorted_set(S) ==
  IF S = {} THEN {<<>>}
  ELSE UNION {{<<x>> \o t : t \in sorted_set(S \ {x})} : x \in LeastByLower(S)}

\* Mutant of sorted_unique: items that differ only in case count as one, the
\* least spelling is kept.
sorted_unique_ignoring_case(items) ==
  LET clean == SelectSeq([i \in 1..Len(items) |-> normalize_name(items[i])],
                         LAMBDA x : x # <<>>)
      kept == {x \in Range(clean) :
                 \A y \in Range(clean) : lower(y) = lower(x) => ~StrLess(y, x)}
  IN sorted_set(kept)

\* _sorted_unique(items): the possible results.
sorted_unique(items) ==
  LET clean == SelectSeq([i \in 1..Len(items) |-> normalize_name(items[i])],
                         LAMBDA x : x # <<>>)
  IN sorted_set(Range(clean))

-----------------------------------------------------------------------------
(* Dictionaries *)

Entry(key, val) == [k |-> key, v |-> val]
Keys(d) == [i \in 1..Len(d) |-> d[i].k]
KeySet(d) == {d[i].k : i \in 1..Len(d)}
Has(d, key) == key \in KeySet(d)
Get(d, key) == d[CHOOSE i \in 1..Len(d) : d[i].k = key].v
\* d[key] = val: an existing key keeps its place, a new one goes last.
Put(d, key, val) ==
  IF Has(d, key)
  THEN [i \in 1..Len(d) |-> IF d[i].k = key THEN Entry(key, val) ELSE d[i]]
  ELSE Append(d, Entry(key, val))
\* del d[key]
Del(d, key) == SelectSeq(d, LAMBDA e : e.k # key)

-----------------------------------------------------------------------------
(* Program constants *)

\* "Uncategorized"
Uncategorized == <<85, 110, 99, 97, 116, 101, 103, 111, 114, 105, 122, 101, 100>>

DEFAULT_STORES ==
  <<
    \* "Costco"
    [k |-> <<67, 111, 115, 116, 99, 111>>, v |-> <<
      \* "Bakery": "Bread", "Ritz Crackers"
      [k |-> <<66, 97, 107, 101, 114, 121>>, v |-> <<
          <<66, 114, 101, 97, 100>>,
          <<82, 105, 116, 122, 32, 67, 114, 97, 99, 107, 101, 114, 115>>
        >>],
      \* "Dairy": "Eggs", "Milk", "Cheese", "Butter", "Dahi"
      [k |-> <<68, 97, 105, 114, 121>>, v |-> <<
          <<69, 103, 103, 115>>,
          <<77, 105, 108, 107>>,
          <<67, 104, 101, 101, 115, 101>>,
          <<66, 117, 116, 116, 101, 114>>,
          <<68, 97, 104, 105>>
        >>],
      \* "Meat & Frozen": "Chicken", "Chicken nuggets"
      [k |-> <<77, 101, 97, 116, 32, 38, 32, 70, 114, 111, 122, 101, 110>>, v |-> <<
          <<67, 104, 105, 99, 107, 101, 110>>,
          <<67, 104, 105, 99, 107, 101, 110, 32, 110, 117, 103, 103, 101, 116, 115>>
        >>],
      \* "Pantry & Snacks": "Chips", "Juice", "Nuts", "Cooking oil"
      [k |-> <<80, 97, 110, 116, 114, 121, 32, 38, 32, 83, 110, 97, 99, 107, 115>>, v |-> <<
          <<67, 104, 105, 112, 115>>,
          <<74, 117, 105, 99, 101>>,
          <<78, 117, 116, 115>>,
          <<67, 111, 111, 107, 105, 110, 103, 32, 111, 105, 108>>
        >>],
      \* "Household": "Toilet Paper", "Paper Towel"
      [k |-> <<72, 111, 117, 115, 101, 104, 111, 108, 100>>, v |-> <<
          <<84, 111, 105, 108, 101, 116, 32, 80, 97, 112, 101, 114>>,
          <<80, 97, 112, 101, 114, 32, 84, 111, 119, 101, 108>>
        >>]
    >>],
    \* "Walmart"
    [k |-> <<87, 97, 108, 109, 97, 114, 116>>, v |-> <<
      \* "Pantry": "Tortillas", "Beans", "Pasta Noodles", "Sauces", "Sugar"
      [k |-> <<80, 97, 110, 116, 114, 121>>, v |-> <<
          <<84, 111, 114, 116, 105, 108, 108, 97, 115>>,
          <<66, 101, 97, 110, 115>>,
          <<80, 97, 115, 116, 97, 32, 78, 111, 111, 100, 108, 101, 115>>,
          <<83, 97, 117, 99, 101, 115>>,
          <<83, 117, 103, 97, 114>>
        >>],
      \* "Dairy": "Sour cream"
      [k |-> <<68, 97, 105, 114, 121>>, v |-> <<
          <<83, 111, 117, 114, 32, 99, 114, 101, 97, 109>>
        >>],
      \* "Produce": "Veggies", "Fruits", "Tomato", "Potato", "Bell peppers", "Onion"
      [k |-> <<80, 114, 111, 100, 117, 99, 101>>, v |-> <<
          <<86, 101, 103, 103, 105, 101, 115>>,
          <<70, 114, 117, 105, 116, 115>>,
          <<84, 111, 109, 97, 116, 111>>,
          <<80, 111, 116, 97, 116, 111>>,
          <<66, 101, 108, 108, 32, 112, 101, 112, 112, 101, 114, 115>>,
          <<79, 110, 105, 111, 110>>
        >>]
    >>],
    \* "Indian Store"
    [k |-> <<73, 110, 100, 105, 97, 110, 32, 83, 116, 111, 114, 101>>, v |-> <<
      \* "Staples": "Rice", "Daal", "Pulses"
      [k |-> <<83, 116, 97, 112, 108, 101, 115>>, v |-> <<
          <<82, 105, 99, 101>>,
          <<68, 97, 97, 108>>,
          <<80, 117, 108, 115, 101, 115>>
        >>],
      \* "Spices": "Masalas"
      [k |-> <<83, 112, 105, 99, 101, 115>>, v |-> <<
          <<77, 97, 115, 97, 108, 97, 115>>
        >>],
      \* "Convenience": "Maggie noodles", "Mango pulp"
      [k |-> <<67, 111, 110, 118, 101, 110, 105, 101, 110, 99, 101>>, v |-> <<
          <<77, 97, 103, 103, 105, 101, 32, 110, 111, 111, 100, 108, 101, 115>>,
          <<77, 97, 110, 103, 111, 32, 112, 117, 108, 112>>
        >>]
    >>],
    \* "Marianos"
    [k |-> <<77, 97, 114, 105, 97, 110, 111, 115>>, v |-> <<
      \* "Uncategorized": 
      [k |-> <<85, 110, 99, 97, 116, 101, 103, 111, 114, 105, 122, 101, 100>>, v |-> <<
        >>]
    >>]
  >>

DEFAULT_STORE_ORDER ==
  <<
    <<67, 111, 115, 116, 99, 111>>,  \* "Costco"
    <<87, 97, 108, 109, 97, 114, 116>>,  \* "Walmart"
    <<73, 110, 100, 105, 97, 110, 32, 83, 116, 111, 114, 101>>,  \* "Indian Store"
    <<77, 97, 114, 105, 97, 110, 111, 115>>  \* "Marianos"
  >>

-----------------------------------------------------------------------------
(* The persisted documents.  A file is absent, unparsable, or holds a JSON *)
(* value: an object (a dictionary of members), an array of strings, or     *)
(* anything else.                                                          *)

Absent == [kind |-> "absent"]
Invalid == [kind |-> "invalid"]
JsonFile(val) == [kind |-> "json", value |-> val]
JObject(members) == [t |-> "object", members |-> members]
JArray(items) == [t |-> "array", items |-> items]
JOther == [t |-> "other"]

\* The inner loop of convert_legacy_shape over a store's category map: the
\* possible cat_map values (a later category of the same normalised name
\* overwrites an earlier one; a category whose value is no list is skipped).
RECURSIVE convert_categories(_, _)
convert_categories(payload, cat_map) ==
  IF payload = <<>> THEN {cat_map}
  ELSE LET cat == Head(payload).k
           items == Head(payload).v
           norm == normalize_name(cat)
           cat_name == IF norm # <<>> THEN norm ELSE Uncategorized
       IN IF items.t = "array"
          THEN UNION {convert_categories(Tail(payload), Put(cat_map, cat_name, its))
                        : its \in sorted_unique(items.items)}
          ELSE convert_categories(Tail(payload), cat_map)

\* What convert_legacy_shape stores for one store's payload.
convert_payload(payload) ==
  IF payload.t = "array"
  THEN {<<Entry(Uncategorized, its)>> : its \in sorted_unique(payload.items)}
  ELSE IF payload.t = "object"
  THEN {IF cat_map = <<>> THEN <<Entry(Uncategorized, <<>>)>> ELSE cat_map
          : cat_map \in convert_categories(payload.members, <<>>)}
  ELSE {<<Entry(Uncategorized, <<>>)>>}

\* convert_legacy_shape(data): the possible converted catalogs.
RECURSIVE convert_legacy_from(_, _)
convert_legacy_from(data, converted) ==
  IF data = <<>> THEN {converted}
  ELSE LET store_name == normalize_name(Head(data).k)
       IN IF store_name = <<>>
          THEN convert_legacy_from(Tail(data), converted)
          ELSE UNION {convert_legacy_from(Tail(data), Put(converted, store_name, cm))
                        : cm \in convert_payload(Head(data).v)}

convert_legacy_shape(data) == convert_legacy_from(data, <<>>)

\* load_stores(): the possible catalogs read from DATA_FILE.
load_stores(file) ==
  IF file.kind = "json" /\ file.value.t = "object"
  THEN {IF cleaned # <<>> THEN cleaned ELSE DEFAULT_STORES
          : cleaned \in convert_legacy_shape(file.value.members)}
  ELSE {DEFAULT_STORES}

\* json.dump(stores): what save_stores writes to DATA_FILE.
save_stores(st) ==
  JsonFile(JObject([i \in 1..Len(st) |->
    Entry(st[i].k, JObject([j \in 1..Len(st[i].v) |->
      Entry(st[i].v[j].k, JArray(st[i].v[j].v))]))]))

\* "store_order"
StoreOrderKey == <<115, 116, 111, 114, 101, 95, 111, 114, 100, 101, 114>>

\* json.dump({"store_order": order}): what save_store_order writes.
save_store_order(order) ==
  JsonFile(JObject(<<Entry(StoreOrderKey, JArray(order))>>))

\* The loop "for s in candidates: if s not in order: order.append(s)".
RECURSIVE AppendMissing(_, _)
AppendMissing(order, candidates) ==
  IF candidates = <<>> THEN order
  ELSE AppendMissing(IF Head(candidates) \in Range(order) THEN order
                     ELSE Append(order, Head(candidates)),
                     Tail(candidates))

\* load_store_order(stores), reading META_FILE.
load_store_order(st, file) ==
  LET listed ==
        IF /\ file.kind = "json"
           /\ file.value.t = "object"
           /\ Has(file.value.members, StoreOrderKey)
           /\ Get(file.value.members, StoreOrderKey).t = "array"
        THEN LET raw == Get(file.value.members, StoreOrderKey).items
             IN SelectSeq([i \in 1..Len(raw) |-> normalize_name(raw[i])],
                          LAMBDA x : x # <<>>)
        ELSE <<>>
      seeded == IF listed = <<>> THEN DEFAULT_STORE_ORDER ELSE listed
      existing == SelectSeq(seeded, LAMBDA s : Has(st, s))
  IN AppendMissing(existing, sorted_lower(Keys(st)))

-----------------------------------------------------------------------------
(* Catalog operations *)

NameOr(name, default) ==
  LET n == normalize_name(name) IN IF n # <<>> THEN n ELSE default

\* Mutant of add_store: an existing store is replaced by a fresh one.
add_store_overwriting(st, store_name) ==
  LET name == normalize_name(store_name)
  IN IF name # <<>>
     THEN Put(st, name, <<Entry(Uncategorized, <<>>)>>)
     ELSE st

add_store(st, store_name) ==
  LET name == normalize_name(store_name)
  IN IF name # <<>> /\ ~Has(st, name)
     THEN Put(st, name, <<Entry(Uncategorized, <<>>)>>)
     ELSE st

add_category(st, store_name, category_name) ==
  LET store == normalize_name(store_name)
      cat == NameOr(category_name, Uncategorized)
  IN IF Has(st, store) /\ ~Has(Get(st, store), cat)
     THEN Put(st, store, Put(Get(st, store), cat, <<>>))
     ELSE st

\* Mutant of new_items_of: the text is split on commas only.
new_items_split_on_commas_only(items_text) ==
  LET pieces == SplitOn(items_text, 44)
  IN SelectSeq([i \in 1..Len(pieces) |-> normalize_name(pieces[i])],
               LAMBDA x : x # <<>>)

\* The pieces of items_text: newlines become commas, the text is split on
\* commas, each piece is normalised and the empty ones are dropped.
new_items_of(items_text) ==
  LET raw == Replace(items_text, 10, 44)
      pieces == SplitOn(raw, 44)
  IN SelectSeq([i \in 1..Len(pieces) |-> normalize_name(pieces[i])],
               LAMBDA x : x # <<>>)

\* add_items(...): the possible resulting catalogs.
add_items(st, store_name, category_name, items_text) ==
  LET store == normalize_name(store_name)
      cat == NameOr(category_name, Uncategorized)
  IN IF ~Has(st, store) THEN {st}
     ELSE LET cats == IF Has(Get(st, store), cat) THEN Get(st, store)
                      ELSE Put(Get(st, store), cat, <<>>)
              merged == Range(Get(cats, cat)) \cup Range(new_items_of(items_text))
          IN {Put(st, store, Put(cats, cat, its)) : its \in sorted_set(merged)}

remove_item(st, store_name, category_name, item) ==
  IF Has(st, store_name) /\ Has(Get(st, store_name), category_name)
  THEN Put(st, store_name,
           Put(Get(st, store_name), category_name,
               SelectSeq(Get(Get(st, store_name), category_name),
                         LAMBDA x : x # item)))
  ELSE st

\* Mutant of remove_category: the category is deleted even when it is the
\* store's only one.
remove_category_even_if_last(st, store_name, category_name) ==
  IF Has(st, store_name) /\ Has(Get(st, store_name), category_name)
  THEN Put(st, store_name, Del(Get(st, store_name), category_name))
  ELSE st

\* Mutant of remove_category: a store's only category is emptied and keeps
\* its name.
remove_category_keeping_name(st, store_name, category_name) ==
  IF Has(st, store_name) /\ Has(Get(st, store_name), category_name)
  THEN IF Len(Get(st, store_name)) > 1
       THEN Put(st, store_name, Del(Get(st, store_name), category_name))
       ELSE Put(st, store_name, <<Entry(category_name, <<>>)>>)
  ELSE st

remove_category(st, store_name, category_name) ==
  IF Has(st, store_name) /\ Has(Get(st, store_name), category_name)
  THEN IF Len(Get(st, store_name)) > 1
       THEN Put(st, store_name, Del(Get(st, store_name), category_name))
       ELSE Put(st, store_name, <<Entry(Uncategorized, <<>>)>>)
  ELSE st

remove_store(st, store_name) ==
  IF Has(st, store_name) THEN Del(st, store_name) ELSE st

-----------------------------------------------------------------------------
(* Visit order and list formatting *)

\* Mutant of TakeKnownOnce: the seen set is not consulted.
RECURSIVE TakeKnownRepeated(_, _, _)
TakeKnownRepeated(candidates, st, out) ==
  IF candidates = <<>> THEN out
  ELSE TakeKnownRepeated(Tail(candidates), st,
                         IF Has(st, Head(candidates))
                         THEN Append(out, Head(candidates)) ELSE out)

\* The loop "for s in candidates: if s in stores and s not in seen: ..."
\* of ordered_stores; out holds exactly the names seen.
RECURSIVE TakeKnownOnce(_, _, _)
TakeKnownOnce(candidates, st, out) ==
  IF candidates = <<>> THEN out
  ELSE TakeKnownOnce(Tail(candidates), st,
                     IF Has(st, Head(candidates)) /\ Head(candidates) \notin Range(out)
                     THEN Append(out, Head(candidates)) ELSE out)

\* Mutant of ordered_stores: the visit order is ignored.
ordered_stores_alphabetical(order, st) == sorted_lower(Keys(st))

\* ordered_stores(store_order, stores)
ordered_stores(order, st) ==
  AppendMissing(TakeKnownOnce(order, st, <<>>), sorted_lower(Keys(st)))

\* parse_store_order_text(text, stores)
parse_store_order_text(text, st) ==
  LET split == SplitLines(text, <<>>, <<>>)
      lines == SelectSeq([i \in 1..Len(split) |-> normalize_name(split[i])],
                         LAMBDA x : x # <<>> /\ Has(st, x))
  IN AppendMissing(TakeKnownOnce(lines, st, <<>>), sorted_lower(Keys(st)))

\* CHECKBOX_BULLET and UNDERLINE_CHAR, as the source file spells them.
CHECKBOX_BULLET == <<8218, 242, 234>>
UNDERLINE_CHAR == <<8218, 196, 238>>

\* "Shopping List - "
ListTitle == <<83, 104, 111, 112, 112, 105, 110, 103, 32, 76, 105, 115, 116, 32, 45, 32>>

\* date.today().strftime("%b %d, %Y"): "Feb 21, 2026", the source's example.
Today == <<70, 101, 98, 32, 50, 49, 44, 32, 50, 48, 50, 54>>

RECURSIVE Repeat(_, _)
Repeat(s, n) == IF n <= 0 THEN <<>> ELSE s \o Repeat(s, n - 1)

RECURSIVE Flatten(_)
Flatten(seqs) == IF seqs = <<>> THEN <<>> ELSE Head(seqs) \o Flatten(Tail(seqs))

Max(a, b) == IF a >= b THEN a ELSE b
Min(a, b) == IF a <= b THEN a ELSE b

\* The lines a store with items contributes: header, underline, one line
\* per item, a blank line.
StoreBlock(store, items) ==
  <<(<<42>> \o store \o <<42>>),
    Repeat(UNDERLINE_CHAR, Max(6, Min(22, Len(store) + 2)))>>
  \o [i \in 1..Len(items) |-> CHECKBOX_BULLET \o <<32>> \o items[i]]
  \o << <<>> >>

\* The loop over stores_in_order of format_shopping_list_for_whatsapp: the
\* possible line lists.
RECURSIVE format_lines(_, _, _)
format_lines(stores_in_order, sel, lines) ==
  IF stores_in_order = <<>> THEN {lines}
  ELSE LET store == Head(stores_in_order)
           cat_map == IF Has(sel, store) THEN Get(sel, store) ELSE <<>>
           all_items == Flatten([i \in 1..Len(cat_map) |-> cat_map[i].v])
           clean == SelectSeq([i \in 1..Len(all_items) |-> normalize_name(all_items[i])],
                              LAMBDA x : x # <<>>)
       IN IF clean = <<>>
          THEN format_lines(Tail(stores_in_order), sel, lines)
          ELSE UNION {format_lines(Tail(stores_in_order), sel,
                                   lines \o StoreBlock(store, its))
                        : its \in sorted_set(Range(clean))}

\* str.strip()
RECURSIVE LStrip(_)
LStrip(s) == IF s # <<>> /\ IsSpace(Head(s)) THEN LStrip(Tail(s)) ELSE s
RECURSIVE RStrip(_)
RStrip(s) ==
  IF s # <<>> /\ IsSpace(s[Len(s)]) THEN RStrip(SubSeq(s, 1, Len(s) - 1)) ELSE s
Strip(s) == RStrip(LStrip(s))

\* format_shopping_list_for_whatsapp(selected, store_order): the possible
\* texts.
format_shopping_list_for_whatsapp(sel, order) ==
  {Strip(Join(<<10>>, lines))
     : lines \in format_lines(ordered_stores(order, sel), sel,
                              <<ListTitle \o Today, <<>> >>)}

-----------------------------------------------------------------------------
(* The session: one script run per user action *)

\* {s: {c: set() for c in stores[s].keys()} for s in stores}
empty_selection(st) ==
  [s \in KeySet(st) |-> [c \in KeySet(Get(st, s)) |-> {}]]

\* dict.setdefault(store, {}) on the selection
SetDefaultStore(sel, s) ==
  IF s \in DOMAIN sel THEN sel
  ELSE [x \in DOMAIN sel \cup {s} |-> IF x = s THEN [c \in {} |-> {}] ELSE sel[x]]

\* dict.setdefault(cat, set()) on the selection of one store
SetDefaultCat(sel, s, c) ==
  IF c \in DOMAIN sel[s] THEN sel
  ELSE [sel EXCEPT ![s] = [x \in DOMAIN sel[s] \cup {c} |->
                             IF x = c THEN {} ELSE sel[s][x]]]

\* for store in list(selected.keys()): if store not in stores: del ...
DropUnknownStores(sel, st) == [s \in DOMAIN sel \cap KeySet(st) |-> sel[s]]

\* for cat in stores[store]: selected[store].setdefault(cat, set()),
\* from the i-th category on
RECURSIVE DefaultCats(_, _, _, _)
DefaultCats(sel, s, cats, i) ==
  IF i > Len(cats) THEN sel
  ELSE DefaultCats(SetDefaultCat(sel, s, cats[i].k), s, cats, i + 1)

\* for cat in list(selected[store].keys()):
\*   if cat not in stores[store]: del selected[store][cat]
DropUnknownCats(sel, s, cats) ==
  [x \in DOMAIN sel |->
    IF x = s THEN [c \in DOMAIN sel[s] \cap KeySet(cats) |-> sel[s][c]]
    ELSE sel[x]]

\* Mutant of AlignStore: categories gone from the catalog stay selected.
AlignStoreKeepingStale(sel, s, cats) ==
  DefaultCats(SetDefaultStore(sel, s), s, cats, 1)

\* The body of "for store in stores", for one store and its categories.
AlignStore(sel, s, cats) ==
  DropUnknownCats(DefaultCats(SetDefaultStore(sel, s), s, cats, 1), s, cats)

\* for store in stores: ..., from the i-th store on
RECURSIVE AlignStores(_, _, _)
AlignStores(sel, st, i) ==
  IF i > Len(st) THEN sel
  ELSE AlignStores(AlignStore(sel, st[i].k, st[i].v), st, i + 1)

\* "Keep selection aligned with stores/categories": the two loops at the top
\* of every run.
reconcile(sel, st) == AlignStores(DropUnknownStores(sel, st), st, 1)

\* del d[key] on a selection dictionary
Without(f, key) == [x \in DOMAIN f \ {key} |-> f[x]]

\* Mutant of DiscardItem: the removed item stays selected.
KeepItemSelected(sel, store, cat, item) == sel

\* selected[store_rm][cat_rm].discard(item_rm)
DiscardItem(sel, store, cat, item) == [sel EXCEPT ![store][cat] = @ \ {item}]

\* if cat_rm in selected[store_rm]: del selected[store_rm][cat_rm]
DeleteCategory(sel, store, cat) == [sel EXCEPT ![store] = Without(@, cat)]

\* if store_rm in selected: del selected[store_rm]
DeleteStore(sel, store) == Without(sel, store)

-----------------------------------------------------------------------------
(* Inputs of the session *)

\* "a", "B": the stores the user adds and edits; "D": a category;
\* "M", "e": items.
StoreA == <<97>>
StoreB == <<66>>
CatD == <<68>>
ItemM == <<77>>
ItemE == <<101>>

\* Texts typed into "Store name": " a ", "B", "".
StoreNameInputs == {<<32, 97, 32>>, <<66>>, <<>>}
\* Texts typed into a category name field: "", "D".
CategoryInputs == {<<>>, <<68>>}
\* Texts typed into "Products": "M", " e ,M", " ".
ItemsTextInputs == {<<77>>, <<32, 101, 32, 44, 77>>, <<32>>}
\* Texts typed into "Store order": "B\na", "a\n\nx\na", "".
OrderTextInputs == {<<66, 10, 97>>, <<97, 10, 10, 120, 10, 97>>, <<>>}
\* The store whose categories and items the user edits and checks, and the
\* stores the user removes.
EditStores == {StoreA}
RemovableStores == {StoreA, StoreB}

\* DATA_FILE as found at start: absent; {};
\* {" a ": {"D": ["M", " e ", "M"], "": ["e"], " D": 1}, "B": ["e", "M"]}
\* (nested map and flat list, names to normalise); {"a": 1, "B": {"D": 1}}
\* (unrecognised shapes).
InitDataFiles ==
  { Absent, JsonFile(JObject(<<>>)),
    JsonFile(JObject(<<
      Entry(<<32, 97, 32>>, JObject(<<
        Entry(<<68>>, JArray(<< <<77>>, <<32, 101, 32>>, <<77>> >>)),
        Entry(<<>>, JArray(<< <<101>> >>)),
        Entry(<<32, 68>>, JOther) >>)),
      Entry(<<66>>, JArray(<< <<101>>, <<77>> >>)) >>)),
    JsonFile(JObject(<<
      Entry(<<97>>, JOther),
      Entry(<<66>>, JObject(<< Entry(<<68>>, JOther) >>)) >>)) }

\* META_FILE as found at start: absent; {"store_order": ["B ", "a"]};
\* {"store_order": ["a", "a", "x"]} (a repeated and a stale name).
InitMetaFiles ==
  { Absent,
    save_store_order(<< <<66, 32>>, <<97>> >>),
    save_store_order(<< <<97>>, <<97>>, <<120>> >>) }

NoProbe == [fn |-> "none"]

-----------------------------------------------------------------------------
(* The session's state machine.  Every action is one user action: the       *)
(* handler it triggers and, where the handler ends in st.rerun(), the top   *)
(* of the following run (selection reconciliation, visit order reload).     *)

Init ==
  /\ dataFile \in InitDataFiles
  /\ metaFile \in InitMetaFiles
  /\ stores \in load_stores(dataFile)
  /\ selected = reconcile(empty_selection(stores), stores)
  /\ store_order = load_store_order(stores, metaFile)
  /\ last = "Init"
  /\ probe = NoProbe

\* Top of a script run, on the state the previous run left.
TopOfRun(st, sel, meta) ==
  /\ selected' = reconcile(sel, st)
  /\ store_order' = load_store_order(st, meta)

\* A checkbox of a visible item is clicked: the widget returns the opposite
\* of its default (item in selected), and the tile loop adds or discards.
ToggleItem(store, cat, item) ==
  LET checked == item \notin selected[store][cat]
  IN /\ Has(stores, store) /\ Has(Get(stores, store), cat)
     /\ item \in Range(Get(Get(stores, store), cat))
     /\ selected' = [selected EXCEPT ![store][cat] =
                       IF checked THEN @ \cup {item} ELSE @ \ {item}]
     /\ last' = "ToggleItem"
     /\ UNCHANGED <<stores, store_order, dataFile, metaFile, probe>>

\* "Clear selections"
ClearSelections ==
  /\ TopOfRun(stores, [s \in DOMAIN selected |-> [c \in DOMAIN selected[s] |-> {}]],
              metaFile)
  /\ last' = "ClearSelections"
  /\ UNCHANGED <<stores, dataFile, metaFile, probe>>

\* "Save stores/items"
SaveClick ==
  /\ dataFile' = save_stores(stores)
  /\ metaFile' = save_store_order(store_order)
  /\ last' = "SaveClick"
  /\ UNCHANGED <<stores, store_order, selected, probe>>

\* "Reset to defaults"
ResetToDefaults ==
  LET st == DEFAULT_STORES
      order == load_store_order(st, metaFile)
  IN /\ stores' = st
     /\ dataFile' = save_stores(st)
     /\ metaFile' = save_store_order(order)
     /\ TopOfRun(st, empty_selection(st), save_store_order(order))
     /\ last' = "ResetToDefaults"
     /\ UNCHANGED probe

\* "Update store order"
UpdateStoreOrder(order_text) ==
  LET new_order == parse_store_order_text(order_text, stores)
  IN /\ metaFile' = save_store_order(new_order)
     /\ TopOfRun(stores, selected, save_store_order(new_order))
     /\ last' = "UpdateStoreOrder"
     /\ UNCHANGED <<stores, dataFile, probe>>

\* A handler that only shows a warning.
Warned == UNCHANGED vars

\* "Add store"
AddStoreClick(text) ==
  LET new_store == normalize_name(text)
      st == add_store(stores, new_store)
      sel == IF new_store \in DOMAIN selected THEN selected
             ELSE [s \in DOMAIN selected \cup {new_store} |->
                     IF s = new_store THEN [c \in {Uncategorized} |-> {}]
                     ELSE selected[s]]
      order == load_store_order(st, metaFile)
  IN \/ /\ new_store = <<>> \/ Has(stores, new_store)
        /\ Warned
     \/ /\ new_store # <<>> /\ ~Has(stores, new_store)
        /\ Len(stores) < MaxStores
        /\ stores' = st
        /\ dataFile' = save_stores(st)
        /\ metaFile' = save_store_order(order)
        /\ TopOfRun(st, sel, save_store_order(order))
        /\ last' = "AddStoreClick"
        /\ UNCHANGED probe

\* Mutant of AddCategoryClick: the handler does not call save_stores.
AddCategoryClickWithoutSave(store, text) ==
  LET new_cat == NameOr(text, Uncategorized)
      st == add_category(stores, store, new_cat)
  IN /\ Has(stores, store)
     /\ stores' = st
     /\ TopOfRun(st, SetDefaultCat(selected, store, new_cat), metaFile)
     /\ last' = "AddCategoryClick"
     /\ UNCHANGED <<dataFile, metaFile, probe>>

\* "Add category" (with no store to choose the handler raises before it
\* saves, and nothing changes).
AddCategoryClick(store, text) ==
  LET new_cat == NameOr(text, Uncategorized)
      st == add_category(stores, store, new_cat)
  IN /\ Has(stores, store)
     /\ stores' = st
     /\ dataFile' = save_stores(st)
     /\ TopOfRun(st, SetDefaultCat(selected, store, new_cat), metaFile)
     /\ last' = "AddCategoryClick"
     /\ UNCHANGED <<metaFile, probe>>

\* "Add products"; cat_text is the category picked or the new name typed.
AddProductsClick(store, cat_text, items_text) ==
  LET cat_name == NameOr(cat_text, Uncategorized)
  IN /\ Has(stores, store)
     /\ \/ /\ Strip(items_text) = <<>>
           /\ Warned
        \/ /\ Strip(items_text) # <<>>
           /\ \E st \in add_items(stores, store, cat_name, items_text) :
                /\ stores' = st
                /\ dataFile' = save_stores(st)
                /\ TopOfRun(st, SetDefaultCat(selected, store, cat_name), metaFile)
           /\ last' = "AddProductsClick"
           /\ UNCHANGED <<metaFile, probe>>

\* "Remove product"
RemoveProductClick(store, cat, item) ==
  LET st == remove_item(stores, store, cat, item)
  IN /\ Has(stores, store) /\ Has(Get(stores, store), cat)
     /\ item \in Range(Get(Get(stores, store), cat))
     /\ stores' = st
     /\ dataFile' = save_stores(st)
     /\ TopOfRun(st, DiscardItem(selected, store, cat, item), metaFile)
     /\ last' = "RemoveProductClick"
     /\ UNCHANGED <<metaFile, probe>>

\* "Remove category"
RemoveCategoryClick(store, cat) ==
  LET st == remove_category(stores, store, cat)
  IN /\ Has(stores, store) /\ Has(Get(stores, store), cat)
     /\ stores' = st
     /\ dataFile' = save_stores(st)
     /\ TopOfRun(st, DeleteCategory(selected, store, cat), metaFile)
     /\ last' = "RemoveCategoryClick"
     /\ UNCHANGED <<metaFile, probe>>

\* "Remove store"
RemoveStoreClick(store) ==
  LET st == remove_store(stores, store)
      order == load_store_order(st, metaFile)
  IN /\ Has(stores, store)
     /\ stores' = st
     /\ dataFile' = save_stores(st)
     /\ metaFile' = save_store_order(order)
     /\ TopOfRun(st, DeleteStore(selected, store), save_store_order(order))
     /\ last' = "RemoveStoreClick"
     /\ UNCHANGED probe

Next ==
  \/ \E s \in EditStores, c \in {Uncategorized, CatD}, i \in {ItemM, ItemE} :
        ToggleItem(s, c, i)
  \/ ClearSelections
  \/ SaveClick
  \/ ResetToDefaults
  \/ \E t \in OrderTextInputs : UpdateStoreOrder(t)
  \/ \E t \in StoreNameInputs : AddStoreClick(t)
  \/ \E s \in EditStores, t \in CategoryInputs : AddCategoryClick(s, t)
  \/ \E s \in EditStores, c \in CategoryInputs, t \in ItemsTextInputs :
        AddProductsClick(s, c, t)
  \/ \E s \in EditStores, c \in {Uncategorized, CatD}, i \in {ItemM, ItemE} :
        RemoveProductClick(s, c, i)
  \/ \E s \in EditStores, c \in {Uncategorized, CatD} : RemoveCategoryClick(s, c)
  \/ \E s \in RemovableStores : RemoveStoreClick(s)

Spec == Init /\ [][Next]_vars

-----------------------------------------------------------------------------
(* Claims about the session *)

CatalogHandlers ==
  {"AddStoreClick", "AddCategoryClick", "AddProductsClick",
   "RemoveProductClick", "RemoveCategoryClick", "RemoveStoreClick"}

\* C1: in every reachable state every store of the catalog has at least one
\* category.
C1_EveryStoreHasACategory ==
  \A i \in 1..Len(stores) : Len(stores[i].v) >= 1

\* C1 witness: "Remove category" has just run on store "a", which is left
\* with the single empty category "Uncategorized".
C1_Witness ==
  /\ last = "RemoveCategoryClick"
  /\ Has(stores, StoreA)
  /\ Get(stores, StoreA) = <<Entry(Uncategorized, <<>>)>>

\* C2: after every user action (and the top of the run that follows it)
\* every selected item name is an item of the catalog's category of the same
\* store and category name.
C2_SelectionWithinCatalog ==
  \A s \in DOMAIN selected :
    /\ Has(stores, s)
    /\ \A c \in DOMAIN selected[s] :
         /\ Has(Get(stores, s), c)
         /\ selected[s][c] \subseteq Range(Get(Get(stores, s), c))

\* C2 witness: "Remove product" has just removed "M" from a category of
\* store "a" in which "e" is still selected.
C2_Witness ==
  /\ last = "RemoveProductClick"
  /\ Has(stores, StoreA)
  /\ \E c \in DOMAIN selected[StoreA] :
       /\ selected[StoreA][c] = {ItemE}
       /\ Range(Get(Get(stores, StoreA), c)) = {ItemE}

\* C8 (as claimed): saving the session's catalog and loading it again gives
\* the same stores, the same categories per store, and in each category the
\* saved items without repetition, sorted case-insensitively.
C8_SaveLoadRoundTrip ==
  \A loaded \in load_stores(save_stores(stores)) :
    /\ KeySet(loaded) = KeySet(stores)
    /\ \A s \in KeySet(stores) :
         /\ KeySet(Get(loaded, s)) = KeySet(Get(stores, s))
         /\ \A c \in KeySet(Get(stores, s)) :
              LET was == Get(Get(stores, s), c)
                  now == Get(Get(loaded, s), c)
              IN /\ Range(now) = {normalize_name(x) : x \in Range(was)}
                 /\ Cardinality(Range(now)) = Len(now)
                 /\ \A i, j \in 1..Len(now) :
                      i < j => ~StrLess(lower(now[j]), lower(now[i]))

\* C8, what the code does keep: the round trip of a catalog that still holds
\* a store.
C8_RoundTripOfNonEmptyCatalog == stores # <<>> => C8_SaveLoadRoundTrip

\* C9 (as claimed): a handler that adds or removes a store, category or item
\* leaves both persisted documents as they were.
C9_CatalogHandlersDoNotPersist ==
  [][last' \in CatalogHandlers => (dataFile' = dataFile /\ metaFile' = metaFile)]_vars

\* C9 (amended): after a handler that adds or removes a store, category or
\* item, the persisted catalog document is the dump of the in-memory
\* catalog, and after adding or removing a store the persisted order
\* document is the dump of the in-memory visit order.
C9_CatalogHandlersPersist ==
  /\ last \in CatalogHandlers =>
       /\ dataFile.kind = "json"
       /\ dataFile.value.t = "object"
       /\ Keys(dataFile.value.members) = Keys(stores)
       /\ \A i \in 1..Len(stores) :
            LET cats == dataFile.value.members[i].v
            IN /\ cats.t = "object"
               /\ Keys(cats.members) = Keys(stores[i].v)
               /\ \A j \in 1..Len(stores[i].v) :
                    cats.members[j].v = JArray(stores[i].v[j].v)
  /\ last \in {"AddStoreClick", "RemoveStoreClick"} =>
       /\ metaFile.kind = "json"
       /\ metaFile.value.t = "object"
       /\ Keys(metaFile.value.members) = <<StoreOrderKey>>
       /\ metaFile.value.members[1].v = JArray(store_order)

\* C9 witness: "Add products" has just run and the persisted catalog holds
\* the item it added, which the document found at start did not hold.
C9_Witness ==
  /\ last = "AddProductsClick"
  /\ Has(stores, StoreA)
  /\ Has(Get(stores, StoreA), Uncategorized)
  /\ ItemM \in Range(Get(Get(stores, StoreA), Uncategorized))
  /\ dataFile = save_stores(stores)

-----------------------------------------------------------------------------
(* Pure functions under test: probe holds the function's name, its input,  *)
(* and, once applied, its result.  The session's variables stay idle.       *)

Idle ==
  /\ stores = <<>> /\ store_order = <<>> /\ selected = <<>>
  /\ dataFile = Absent /\ metaFile = Absent /\ last = "Init"

Pending(fn, in) == [fn |-> fn, in |-> in, out |-> <<>>, done |-> FALSE]

\* The function named fn is applied to the pending input; results is the set
\* of values it may return.
Applied(fn, results) ==
  /\ probe.fn = fn /\ ~probe.done
  /\ \E r \in results : probe' = [probe EXCEPT !.out = r, !.done = TRUE]
  /\ UNCHANGED <<stores, store_order, selected, dataFile, metaFile, last>>

Done(fn) == probe.fn = fn /\ probe.done

\* Sequences over S of length at most n, and those without repetition.
SeqsUpTo(S, n) == UNION {[1..k -> S] : k \in 0..n}
Arrangements(S, n) ==
  {s \in SeqsUpTo(S, n) : \A i, j \in 1..Len(s) : i # j => s[i] # s[j]}

\* A catalog with the given store names, each with its initial category.
CatalogOf(names) ==
  [i \in 1..Len(names) |-> Entry(names[i], <<Entry(Uncategorized, <<>>)>>)]

\* Position of the first occurrence of x in seq.
FirstIndex(seq, x) == CHOOSE i \in 1..Len(seq) : seq[i] = x /\ \A j \in 1..(i - 1) : seq[j] # x

\* seq is in case-insensitive alphabetical order.
SortedByLower(seq) ==
  \A i, j \in 1..Len(seq) : i < j => ~StrLess(lower(seq[j]), lower(seq[i]))

\* out lists first the names of `first` that are stores of st, in the order
\* of their first occurrence, then the other stores of st alphabetically.
FirstThenAlphabetical(out, first, st) ==
  \A i, j \in 1..Len(out) : i < j =>
    IF out[j] \in Range(first)
    THEN out[i] \in Range(first) /\ FirstIndex(first, out[i]) < FirstIndex(first, out[j])
    ELSE out[i] \in Range(first) \/ ~StrLess(lower(out[j]), lower(out[i]))

\* out holds every store name of st exactly once and nothing else.
PermutationOfStores(out, st) ==
  /\ Range(out) = KeySet(st)
  /\ Len(out) = Cardinality(KeySet(st))

-----------------------------------------------------------------------------
(* load_store_order *)

\* "Costco", "Walmart"
Costco == <<67, 111, 115, 116, 99, 111>>
Walmart == <<87, 97, 108, 109, 97, 114, 116>>

\* Catalogs of up to three stores among "a", "B", "Costco", "Walmart".
OrderCatalogs ==
  {CatalogOf(n) : n \in Arrangements({StoreA, StoreB, Costco, Walmart}, 3)}

\* Persisted order entries: "a", " B ", "x" (no store), "".
OrderEntries == {<<97>>, <<32, 66, 32>>, <<120>>, <<>>}

\* META_FILE: absent, not JSON, no object, no "store_order" member, a
\* "store_order" that is no list, or a list of entries.
OrderFiles ==
  {Absent, Invalid, JsonFile(JOther), JsonFile(JObject(<<>>)),
   JsonFile(JObject(<<Entry(StoreOrderKey, JOther)>>))}
  \cup {save_store_order(o) : o \in SeqsUpTo(OrderEntries, MaxOrderLen)}

InitLoadOrder ==
  /\ Idle
  /\ probe \in {Pending("load_store_order", [stores |-> c, file |-> f])
                  : c \in OrderCatalogs, f \in OrderFiles}

ApplyLoadOrder ==
  Applied("load_store_order", {load_store_order(probe.in.stores, probe.in.file)})

SpecLoadOrder == InitLoadOrder /\ [][ApplyLoadOrder]_vars

\* The names a persisted document lists: its normalised non-empty entries,
\* or the default sequence when it has none.
ListedIn(file) ==
  LET entries ==
        IF file.kind = "json" /\ file.value.t = "object"
           /\ \E i \in 1..Len(file.value.members) :
                file.value.members[i].k = StoreOrderKey /\ file.value.members[i].v.t = "array"
        THEN LET a == (CHOOSE e \in Range(file.value.members) : e.k = StoreOrderKey).v.items
             IN SelectSeq([i \in 1..Len(a) |-> normalize_name(a[i])], LAMBDA x : x # <<>>)
        ELSE <<>>
  IN IF entries = <<>> THEN DEFAULT_STORE_ORDER ELSE entries

\* C3 (as claimed): load_store_order returns every store of the catalog
\* exactly once and no other name; the listed names that are stores come
\* first, in the order of their first occurrence, the other stores follow in
\* case-insensitive alphabetical order.
C3_LoadOrderIsPermutation ==
  Done("load_store_order") =>
    /\ PermutationOfStores(probe.out, probe.in.stores)
    /\ FirstThenAlphabetical(probe.out, ListedIn(probe.in.file), probe.in.stores)

\* C3, what the code does keep: every store occurs, no other name occurs,
\* and a name occurs twice only if the persisted list repeats it.
C3_LoadOrderCoversStores ==
  Done("load_store_order") =>
    /\ Range(probe.out) = KeySet(probe.in.stores)
    /\ \A i, j \in 1..Len(probe.out) :
         (i < j /\ probe.out[i] = probe.out[j]) =>
           Cardinality({k \in 1..Len(ListedIn(probe.in.file)) :
                          ListedIn(probe.in.file)[k] = probe.out[i]}) > 1

-----------------------------------------------------------------------------
(* parse_store_order_text *)

\* "a B"
StoreAB == <<97, 32, 66>>

\* Catalogs of up to three stores among "a", "B", "a B".
ParseCatalogs == {CatalogOf(n) : n \in Arrangements({StoreA, StoreB, StoreAB}, 3)}

\* Texts of "a", "B", blank and newline.
ParseTexts == SeqsUpTo({97, 66, 32, 10}, MaxOrderTextLen)

InitParseOrder ==
  /\ Idle
  /\ probe \in {Pending("parse_store_order_text", [text |-> t, stores |-> c])
                  : t \in ParseTexts, c \in ParseCatalogs}

ApplyParseOrder ==
  Applied("parse_store_order_text",
          {parse_store_order_text(probe.in.text, probe.in.stores)})

SpecParseOrder == InitParseOrder /\ [][ApplyParseOrder]_vars

\* text[i..j] is a whole line of text: it holds no newline and is bounded by
\* newlines or the ends of the text.
IsLine(text, i, j) ==
  /\ i = 1 \/ text[i - 1] = 10
  /\ j = Len(text) \/ text[j + 1] = 10
  /\ \A k \in i..j : text[k] # 10

\* The start positions of the lines of text that name store s.
Mentions(text, s) ==
  {i \in 1..(Len(text) + 1) :
     \E j \in (i - 1)..Len(text) :
       IsLine(text, i, j) /\ normalize_name(SubSeq(text, i, j)) = s}

Least(S) == CHOOSE x \in S : \A y \in S : x <= y

\* C4: parse_store_order_text returns every store of the catalog exactly
\* once and nothing else; the stores the text names come first, in the order
\* of their first naming line, the others follow in case-insensitive
\* alphabetical order.
C4_ParseIsPermutation ==
  Done("parse_store_order_text") =>
    LET out == probe.out
        text == probe.in.text
        named(s) == Mentions(text, s) # {}
    IN /\ PermutationOfStores(out, probe.in.stores)
       /\ \A i, j \in 1..Len(out) : i < j =>
            IF named(out[j])
            THEN named(out[i]) /\ Least(Mentions(text, out[i])) < Least(Mentions(text, out[j]))
            ELSE named(out[i]) \/ ~StrLess(lower(out[j]), lower(out[i]))

\* C4 witness: the text names a store twice and holds a line that names no
\* store; one store of the three is named, and the result is out.
C4_Witness ==
  /\ Done("parse_store_order_text")
  /\ Len(probe.in.stores) = 3
  /\ Cardinality(Mentions(probe.in.text, StoreB)) = 2
  /\ Mentions(probe.in.text, StoreA) = {}
  /\ probe.out = <<StoreB, StoreA, StoreAB>>

-----------------------------------------------------------------------------
(* add_items *)

\* "m", "E"
ItemLowerM == <<109>>
CatE == <<69>>

\* Item lists a category holds before the call: empty, one item, sorted
\* lists, and lists in the order a default catalog spells them.
OldItemLists ==
  {<<>>, <<ItemM>>, <<ItemE, ItemM>>, <<ItemLowerM, ItemM>>, <<ItemM, ItemE>>}

\* Texts of "M", "m", blank, comma and newline.
ItemTexts == SeqsUpTo({77, 109, 32, 44, 10}, MaxTextLen)

\* Category arguments: "D" (present), " D " (present once normalised), ""
\* (stands for "Uncategorized"), "E" (absent).
ItemCategoryArgs == {CatD, <<32, 68, 32>>, <<>>, CatE}

InitAddItems ==
  /\ Idle
  /\ probe \in {Pending("add_items",
                        [stores |-> <<Entry(StoreA, <<Entry(Uncategorized, <<ItemE>>),
                                                      Entry(CatD, old)>>),
                                      Entry(StoreB, <<Entry(CatD, <<ItemM>>)>>)>>,
                         store |-> StoreA, category |-> c, text |-> t])
                  : old \in OldItemLists, c \in ItemCategoryArgs, t \in ItemTexts}

ApplyAddItems ==
  Applied("add_items",
          add_items(probe.in.stores, probe.in.store, probe.in.category, probe.in.text))

SpecAddItems == InitAddItems /\ [][ApplyAddItems]_vars

\* text[i..j] is a whole piece of text: it holds no comma and no newline and
\* is bounded by one of them or by the ends of the text.
IsPiece(text, i, j) ==
  /\ i = 1 \/ text[i - 1] \in {44, 10}
  /\ j = Len(text) \/ text[j + 1] \in {44, 10}
  /\ \A k \in i..j : text[k] \notin {44, 10}

\* The non-empty normalised pieces of text.
PiecesOf(text) ==
  {normalize_name(SubSeq(text, p[1], p[2]))
     : p \in {q \in (1..(Len(text) + 1)) \X (0..Len(text)) :
                q[2] >= q[1] - 1 /\ IsPiece(text, q[1], q[2])}} \ {<<>>}

\* The items of category cat of store s in catalog st (none if absent).
ItemsAt(st, s, cat) ==
  IF Has(st, s) /\ Has(Get(st, s), cat) THEN Get(Get(st, s), cat) ELSE <<>>

\* C5: after add_items the category's list holds exactly the items it held
\* before and the non-empty normalised pieces of the text, none twice, in
\* case-insensitive order.
C5_AddItemsIsSortedUnion ==
  Done("add_items") =>
    LET cat == NameOr(probe.in.category, Uncategorized)
        was == ItemsAt(probe.in.stores, probe.in.store, cat)
        now == ItemsAt(probe.out, probe.in.store, cat)
    IN /\ Has(probe.out, probe.in.store) /\ Has(Get(probe.out, probe.in.store), cat)
       /\ Range(now) = Range(was) \cup PiecesOf(probe.in.text)
       /\ Cardinality(Range(now)) = Len(now)
       /\ SortedByLower(now)

\* C5 witness: the text holds a comma and a newline and brings a new item
\* into a category whose old items were not in sorted order.
C5_Witness ==
  /\ Done("add_items")
  /\ probe.in.category = CatD
  /\ ItemsAt(probe.in.stores, StoreA, CatD) = <<ItemM, ItemE>>
  /\ probe.in.text = <<109, 44, 10, 77>>
  /\ ItemsAt(probe.out, StoreA, CatD) = <<ItemE, ItemM, ItemLowerM>>

-----------------------------------------------------------------------------
(* remove_category *)

\* Category maps of one to three categories among "Uncategorized", "D", "E",
\* each empty or holding "M".
RemoveCatMaps ==
  UNION {{[i \in 1..Len(n) |-> Entry(n[i], its[i])]
            : its \in [1..Len(n) -> {<<>>, <<ItemM>>}]}
           : n \in Arrangements({Uncategorized, CatD, CatE}, 3) \ {<<>>}}

InitRemoveCategory ==
  /\ Idle
  /\ probe \in {Pending("remove_category",
                        [stores |-> <<Entry(StoreA, cm)>> \o others,
                         store |-> StoreA, category |-> c])
                  : cm \in RemoveCatMaps, c \in {Uncategorized, CatD, CatE},
                    others \in {<<>>, <<Entry(StoreB, <<Entry(CatD, <<ItemM>>)>>)>>}}
  /\ Has(Get(probe.in.stores, StoreA), probe.in.category)

ApplyRemoveCategory ==
  Applied("remove_category",
          {remove_category(probe.in.stores, probe.in.store, probe.in.category)})

SpecRemoveCategory == InitRemoveCategory /\ [][ApplyRemoveCategory]_vars

\* Removing one of several categories deletes exactly that category and
\* leaves the store's other categories as they were.
RemovesOneOfSeveral(before, after, cat) ==
  /\ KeySet(after) = KeySet(before) \ {cat}
  /\ Len(after) = Len(before) - 1
  /\ \A c \in KeySet(after) : Get(after, c) = Get(before, c)

\* C6 (as claimed): removing a store's only category keeps that category,
\* under its own name, with an empty item list; removing one of several
\* deletes exactly that one.
C6_OnlyCategoryKeepsItsName ==
  Done("remove_category") =>
    LET before == Get(probe.in.stores, probe.in.store)
        after == Get(probe.out, probe.in.store)
    IN IF Len(before) = 1
       THEN after = <<Entry(probe.in.category, <<>>)>>
       ELSE RemovesOneOfSeveral(before, after, probe.in.category)

\* C6 (amended): removing a store's only category leaves the store with
\* exactly one category, named "Uncategorized", with an empty item list;
\* removing one of several deletes exactly that one.
C6_OnlyCategoryBecomesUncategorized ==
  Done("remove_category") =>
    LET before == Get(probe.in.stores, probe.in.store)
        after == Get(probe.out, probe.in.store)
    IN IF Len(before) = 1
       THEN after = <<Entry(Uncategorized, <<>>)>>
       ELSE RemovesOneOfSeveral(before, after, probe.in.category)

\* C6 witness: the only category "D", holding "M", has been removed and the
\* store is left with an empty "Uncategorized".
C6_Witness ==
  /\ Done("remove_category")
  /\ Get(probe.in.stores, StoreA) = <<Entry(CatD, <<ItemM>>)>>
  /\ Get(probe.out, StoreA) = <<Entry(Uncategorized, <<>>)>>

-----------------------------------------------------------------------------
(* format_shopping_list_for_whatsapp *)

\* What one store of selected_for_output holds: nothing selected, or "M"
\* selected in one category and "e" and "M" in another.
FormatCatMaps ==
  {<<Entry(Uncategorized, <<>>), Entry(CatD, <<>>)>>,
   <<Entry(Uncategorized, <<ItemM>>), Entry(CatD, <<ItemE, ItemM>>)>>}

\* Selections of up to three stores among "a", "B", "a B".
FormatSelections ==
  UNION {{[i \in 1..Len(n) |-> Entry(n[i], cm[i])] : cm \in [1..Len(n) -> FormatCatMaps]}
           : n \in Arrangements({StoreA, StoreB, StoreAB}, 3)}

\* Visit orders over "a", "B", "a B" and "x" (no store), repeats allowed.
FormatOrders == SeqsUpTo({StoreA, StoreB, StoreAB, <<120>>}, MaxOrderLen)

InitFormat ==
  /\ Idle
  /\ probe \in {Pending("format_shopping_list_for_whatsapp",
                        [selected |-> s, store_order |-> o])
                  : s \in FormatSelections, o \in FormatOrders}

ApplyFormat ==
  Applied("format_shopping_list_for_whatsapp",
          format_shopping_list_for_whatsapp(probe.in.selected, probe.in.store_order))

SpecFormat == InitFormat /\ [][ApplyFormat]_vars

\* The lines of a text.
LinesOf(text) == SplitOn(text, 10)

\* The header line of a store's block.
HeaderOf(store) == <<42>> \o store \o <<42>>

\* The stores of sel whose header occurs in text, one entry per occurrence,
\* in the order of the text.
BlocksIn(text, sel) ==
  LET headers == SelectSeq(LinesOf(text),
                           LAMBDA l : \E s \in KeySet(sel) : l = HeaderOf(s))
  IN [i \in 1..Len(headers) |-> CHOOSE s \in KeySet(sel) : headers[i] = HeaderOf(s)]

\* The stores of sel with at least one selected item.
StoresWithItems(sel) ==
  {s \in KeySet(sel) : \E i \in 1..Len(Get(sel, s)) : Get(sel, s)[i].v # <<>>}

\* C7: the text holds a block for a store exactly if the store has a
\* selected item, and then exactly one; no line is the header of a name that
\* is no store of the selection; the blocks of the stores the order lists
\* come in the order's sequence, the others follow alphabetically; and with
\* an item selected the text starts with the date line and holds a block.
C7_FormatBlocks ==
  Done("format_shopping_list_for_whatsapp") =>
    LET sel == probe.in.selected
        order == probe.in.store_order
        blocks == BlocksIn(probe.out, sel)
    IN /\ Range(blocks) = StoresWithItems(sel)
       /\ Cardinality(Range(blocks)) = Len(blocks)
       /\ \A s \in Range(order) \ KeySet(sel) :
            \A i \in 1..Len(LinesOf(probe.out)) : LinesOf(probe.out)[i] # HeaderOf(s)
       /\ FirstThenAlphabetical(blocks, order, sel)
       /\ StoresWithItems(sel) # {} =>
            /\ LinesOf(probe.out)[1] = ListTitle \o Today
            /\ blocks # <<>>

\* C7 witness: the order lists "B" twice and "x", which is no store; "B"
\* and the unlisted "a" and "a B" have items, and the three blocks come as
\* "B", "a", "a B".
C7_Witness ==
  /\ Done("format_shopping_list_for_whatsapp")
  /\ probe.in.store_order = <<StoreB, <<120>>, StoreB>>
  /\ Keys(probe.in.selected) = <<StoreAB, StoreA, StoreB>>
  /\ BlocksIn(probe.out, probe.in.selected) = <<StoreB, StoreA, StoreAB>>

\* C7 witness of the skipped store: a store of the selection is listed first
\* in the order, has no selected item, and the text holds one block only.
C7_WitnessSkipped ==
  /\ Done("format_shopping_list_for_whatsapp")
  /\ probe.in.store_order = <<StoreA, StoreB>>
  /\ StoresWithItems(probe.in.selected) = {StoreB}
  /\ BlocksIn(probe.out, probe.in.selected) = <<StoreB>>

-----------------------------------------------------------------------------
(* load_stores *)

\* "Dairy", "Milk", "milk", "Eggs"
Dairy == <<68, 97, 105, 114, 121>>
Milk == <<77, 105, 108, 107>>
LowerMilk == <<109, 105, 108, 107>>
Eggs == <<69, 103, 103, 115>>

\* Item entries of a persisted list: "Milk", "milk", "  Eggs ", " ", and
\* "Eggs  Milk" with a tab and a blank inside.
LoadItemEntries ==
  {Milk, LowerMilk, <<32, 32>> \o Eggs \o <<32>>, <<32>>, Eggs \o <<9, 32>> \o Milk}

\* DATA_FILE holding {"Costco": {"Dairy": [...]}} or the flat {"Costco": [...]}.
LoadFiles ==
  UNION {{JsonFile(JObject(<<Entry(Costco, JObject(<<Entry(Dairy, JArray(l))>>))>>)),
          JsonFile(JObject(<<Entry(Costco, JArray(l))>>))}
           : l \in SeqsUpTo(LoadItemEntries, MaxListLen)}

InitLoadStores ==
  /\ Idle
  /\ probe \in {Pending("load_stores", f) : f \in LoadFiles}

ApplyLoadStores == Applied("load_stores", load_stores(probe.in))

SpecLoadStores == InitLoadStores /\ [][ApplyLoadStores]_vars

\* {"Costco": {"Dairy": ["Milk", "milk", "  Eggs "]}}
C10_Document ==
  JsonFile(JObject(<<Entry(Costco, JObject(<<Entry(Dairy,
    JArray(<<Milk, LowerMilk, <<32, 32>> \o Eggs \o <<32>> >>))>>))>>))

\* s is non-empty, holds no blank but single spaces between words.
IsNormalized(s) ==
  /\ s # <<>>
  /\ \A i \in 1..Len(s) : IsSpace(s[i]) => s[i] = 32
  /\ s[1] # 32 /\ s[Len(s)] # 32
  /\ \A i \in 1..(Len(s) - 1) : ~(s[i] = 32 /\ s[i + 1] = 32)

\* Every category of a loaded catalog holds no string twice, and every item
\* is a non-empty normalised string.
LoadedItemsAreUniqueAndNormalized(st) ==
  \A i \in 1..Len(st) : \A j \in 1..Len(st[i].v) :
    LET items == st[i].v[j].v
    IN /\ Cardinality(Range(items)) = Len(items)
       /\ \A x \in Range(items) : IsNormalized(x)

\* C10 (as claimed): loading the document leaves exactly ["Eggs", "Milk"]
\* in Costco/Dairy; any load leaves no item twice and only non-empty
\* normalised items.
C10_LoadYieldsEggsMilk ==
  Done("load_stores") =>
    /\ probe.in = C10_Document => ItemsAt(probe.out, Costco, Dairy) = <<Eggs, Milk>>
    /\ LoadedItemsAreUniqueAndNormalized(probe.out)

\* C10 (amended): loading the document leaves "Eggs", "Milk" and "milk" in
\* Costco/Dairy, "Eggs" first; any load leaves no string twice and only
\* non-empty normalised items.
C10_LoadKeepsBothSpellings ==
  Done("load_stores") =>
    /\ probe.in = C10_Document =>
         LET items == ItemsAt(probe.out, Costco, Dairy)
         IN /\ Len(items) = 3
            /\ items[1] = Eggs
            /\ {items[2], items[3]} = {Milk, LowerMilk}
    /\ LoadedItemsAreUniqueAndNormalized(probe.out)

\* C10 witness: the document has been loaded and "milk" comes before "Milk".
C10_Witness ==
  /\ Done("load_stores")
  /\ probe.in = C10_Document
  /\ ItemsAt(probe.out, Costco, Dairy) = <<Eggs, LowerMilk, Milk>>

-----------------------------------------------------------------------------
(* Reset to defaults, in the session. *)

\* C11 (as claimed): after "Reset to defaults" the in-memory catalog is the
\* built-in default catalog, the in-memory visit order is the default order
\* Costco, Walmart, Indian Store, Marianos, and the persisted catalog and
\* order documents are the dumps of those in-memory values.
C11_ResetRestoresDefaultOrder ==
  last = "ResetToDefaults" =>
    /\ stores = DEFAULT_STORES
    /\ store_order = DEFAULT_STORE_ORDER
    /\ dataFile = save_stores(stores)
    /\ metaFile = save_store_order(store_order)

\* C11, what the code does keep: after "Reset to defaults" the in-memory
\* catalog is the default catalog, the visit order lists every default store
\* and nothing else, and both documents are the dumps of the in-memory
\* values.
C11_ResetRestoresCatalog ==
  last = "ResetToDefaults" =>
    /\ stores = DEFAULT_STORES
    /\ Range(store_order) = KeySet(DEFAULT_STORES)
    /\ dataFile = save_stores(stores)
    /\ metaFile = save_store_order(store_order)

\* C11: "Reset to defaults" has run on a session whose order document had
\* been written before, and the visit order is not the default order.
C11_ResetKeepsSavedOrder ==
  /\ last = "ResetToDefaults"
  /\ stores = DEFAULT_STORES
  /\ store_order # DEFAULT_STORE_ORDER

-----------------------------------------------------------------------------
(* Selection reconciliation on its own: any catalog over the stores "a" and  *)
(* "B", any prior selection over the stores "a" and "x".                     *)

\* Category maps over "Uncategorized" and "D", each category holding "M".
ReconcileCatMaps ==
  {[i \in 1..Len(n) |-> Entry(n[i], <<ItemM>>)]
     : n \in Arrangements({Uncategorized, CatD}, 2) \ {<<>>}}

ReconcileCatalogs ==
  UNION {{[i \in 1..Len(n) |-> Entry(n[i], cm[i])]
            : cm \in [1..Len(n) -> ReconcileCatMaps]}
           : n \in Arrangements({StoreA, StoreB}, 2)}

\* What one store of a prior selection may hold: any of the categories
\* "Uncategorized", "D", "E", each with "M" selected or nothing selected.
ReconcileStoreSelections ==
  UNION {[cs -> {{}, {ItemM}}] : cs \in SUBSET {Uncategorized, CatD, CatE}}

ReconcileSelections ==
  UNION {[ss -> ReconcileStoreSelections] : ss \in SUBSET {StoreA, <<120>>}}

InitReconcile ==
  /\ Idle
  /\ probe \in {Pending("reconcile", [selected |-> sel, stores |-> st])
                  : sel \in ReconcileSelections, st \in ReconcileCatalogs}

\* The reconciliation runs, and runs once more on its own result.
ApplyReconcile ==
  LET once == reconcile(probe.in.selected, probe.in.stores)
  IN Applied("reconcile",
             {[once |-> once, twice |-> reconcile(once, probe.in.stores)]})

SpecReconcile == InitReconcile /\ [][ApplyReconcile]_vars

\* C12: after the reconciliation the selection has exactly the catalog's
\* stores and, per store, exactly that store's categories; a category the
\* prior selection already had under that store keeps its selected set, any
\* other starts empty; a second reconciliation changes nothing.
C12_ReconcileAlignsSelection ==
  Done("reconcile") =>
    LET sel == probe.in.selected
        st == probe.in.stores
        out == probe.out.once
    IN /\ DOMAIN out = KeySet(st)
       /\ \A s \in KeySet(st) :
            /\ DOMAIN out[s] = KeySet(Get(st, s))
            /\ \A c \in KeySet(Get(st, s)) :
                 out[s][c] = IF s \in DOMAIN sel /\ c \in DOMAIN sel[s]
                             THEN sel[s][c] ELSE {}
       /\ probe.out.twice = out

\* C12 witness: the prior selection held the stale store "x" and, under
\* "a", the stale category "E" and "M" selected in "D"; the catalog holds
\* "a" with "D" and the new store "B"; afterwards "M" is still selected in
\* a/D, "E" and "x" are gone and "B" has empty sets.
C12_Witness ==
  /\ Done("reconcile")
  /\ <<120>> \in DOMAIN probe.in.selected
  /\ StoreA \in DOMAIN probe.in.selected
  /\ CatE \in DOMAIN probe.in.selected[StoreA]
  /\ CatD \in DOMAIN probe.in.selected[StoreA]
  /\ probe.in.selected[StoreA][CatD] = {ItemM}
  /\ Has(probe.in.stores, StoreB)
  /\ Has(probe.in.stores, StoreA)
  /\ Has(Get(probe.in.stores, StoreA), CatD)
  /\ probe.out.once[StoreA][CatD] = {ItemM}
  /\ CatE \notin DOMAIN probe.out.once[StoreA]
  /\ <<120>> \notin DOMAIN probe.out.once
  /\ \A c \in DOMAIN probe.out.once[StoreB] : probe.out.once[StoreB][c] = {}

-----------------------------------------------------------------------------
(* The six catalog functions on their own, called with targets that are in  *)
(* the catalog and targets that are not.                                    *)

\* Store names passed in: "a", " a ", "B", "x", "".
MutationStores == {StoreA, <<32, 97, 32>>, StoreB, <<120>>, <<>>}

\* Category names passed in: "D", " D ", "E", "".
MutationCategories == {CatD, <<32, 68, 32>>, CatE, <<>>}

\* Item names passed in: "M", " M ", "e".
MutationItems == {ItemM, <<32, 77, 32>>, ItemE}

\* Texts passed to add_items: "e", "M", "".
MutationTexts == {ItemE, ItemM, <<>>}

Call(op, st, store, category, item, text) ==
  [op |-> op, stores |-> st, store |-> store, category |-> category,
   item |-> item, text |-> text]

\* Every call of a catalog function on a catalog over the stores "a", "B",
\* the categories "Uncategorized", "D" and the item "M".
MutationCalls ==
  UNION {
    {Call(op, st, s, <<>>, <<>>, <<>>)
       : op \in {"add_store", "remove_store"}, s \in MutationStores}
    \cup {Call(op, st, s, c, <<>>, <<>>)
       : op \in {"add_category", "remove_category"},
         s \in MutationStores, c \in MutationCategories}
    \cup {Call("add_items", st, s, c, <<>>, x)
       : s \in MutationStores, c \in MutationCategories, x \in MutationTexts}
    \cup {Call("remove_item", st, s, c, i, <<>>)
       : s \in MutationStores, c \in MutationCategories, i \in MutationItems}
    : st \in ReconcileCatalogs}

\* The catalogs the call may leave.
MutationResults(call) ==
  CASE call.op = "add_store" -> {add_store(call.stores, call.store)}
    [] call.op = "add_category" ->
         {add_category(call.stores, call.store, call.category)}
    [] call.op = "add_items" ->
         add_items(call.stores, call.store, call.category, call.text)
    [] call.op = "remove_item" ->
         {remove_item(call.stores, call.store, call.category, call.item)}
    [] call.op = "remove_category" ->
         {remove_category(call.stores, call.store, call.category)}
    [] call.op = "remove_store" -> {remove_store(call.stores, call.store)}

InitMutation ==
  /\ Idle
  /\ probe \in {Pending("mutation", call) : call \in MutationCalls}

ApplyMutation == Applied("mutation", MutationResults(probe.in))

SpecMutation == InitMutation /\ [][ApplyMutation]_vars

\* The call names a target the catalog does not hold.  add_store, add_category
\* and add_items look the store up under its normalised name; the remove
\* functions look up the names as given.
UnknownTarget(call) ==
  LET st == call.stores
      norm == normalize_name(call.store)
  IN CASE call.op = "add_store" -> norm = <<>> \/ Has(st, norm)
       [] call.op \in {"add_category", "add_items"} -> ~Has(st, norm)
       [] call.op = "remove_item" ->
            \/ ~Has(st, call.store)
            \/ ~Has(Get(st, call.store), call.category)
            \/ call.item \notin Range(Get(Get(st, call.store), call.category))
       [] call.op = "remove_category" ->
            \/ ~Has(st, call.store)
            \/ ~Has(Get(st, call.store), call.category)
       [] call.op = "remove_store" -> ~Has(st, call.store)

\* C13: a catalog function called with an unknown target (add_store: with a
\* name that normalises to empty or that exists) returns the catalog as it
\* was: the same stores, categories and items in the same order.
C13_UnknownTargetIsNoOp ==
  Done("mutation") => (UnknownTarget(probe.in) => probe.out = probe.in.stores)

\* C13 witness: remove_item has been called for the item "e" on store "a",
\* category "D", which holds only "M", next to a store "B"; the catalog is
\* as it was.
C13_Witness ==
  /\ Done("mutation")
  /\ probe.in.op = "remove_item"
  /\ probe.in.store = StoreA /\ probe.in.category = CatD
  /\ probe.in.item = ItemE
  /\ Has(probe.in.stores, StoreA) /\ Has(probe.in.stores, StoreB)
  /\ Has(Get(probe.in.stores, StoreA), CatD)
  /\ probe.out = probe.in.stores

\* C13 witness: add_store has been called with " a " on a catalog that holds
\* "a" with the category "D", and "a" still has it.
C13_WitnessAddExistingStore ==
  /\ Done("mutation")
  /\ probe.in.op = "add_store"
  /\ probe.in.store = <<32, 97, 32>>
  /\ Has(probe.in.stores, StoreA)
  /\ Has(Get(probe.in.stores, StoreA), CatD)
  /\ probe.out = probe.in.stores

====
